---- MODULE Spec2Model ----
(***************************************************************************)
(* Model of diaguru/scheduler.py: the Task dataclass and the Scheduler     *)
(* registry (add_task, list_tasks, remove_task, has_conflict), together    *)
(* with the caller that holds the list returned by list_tasks.             *)
(*                                                                         *)
(* Python objects are modelled with their identity.  Task objects live in  *)
(* `heap` (address -> fields), list objects live in `lists` (address ->    *)
(* sequence of Task addresses).  `tasksRef` is the list object bound to    *)
(* self._tasks of the Scheduler the caller is calling, `otherRef` the one  *)
(* of a second Scheduler instance (0 when none was made) and `snapRef` is  *)
(* the list object the caller got from the last list_tasks() call (0 when  *)
(* the caller holds none).  Objects that are no longer referenced are      *)
(* reclaimed, as by reference counting.  `call` is the last call made and   *)
(* its outcome.  `cli` is the run of the command-line front end (the       *)
(* __main__ block): its arguments, what it printed and its exit status.    *)
(***************************************************************************)
EXTENDS Integers, Sequences, FiniteSets, TLC

VARIABLES heap, lists, tasksRef, snapRef, otherRef, call, cli

vars == <<heap, lists, tasksRef, snapRef, otherRef, call, cli>>

----------------------------------------------------------------------------
(* Bounds of the model *)

MaxTime == 2
MaxTasks == 2
MaxSnap == 2

Times == 0..MaxTime
Names == {"A", "B"}

----------------------------------------------------------------------------
(* Values *)

EndBeforeStartMsg == "End time must be after start time"
ConflictMsg == "Task conflicts with existing schedule"

Task(name, start, end) == [name |-> name, start |-> start, end |-> end]

Call(op, name, start, end, exc, msg, ret) ==
    [op |-> op, name |-> name, start |-> start, end |-> end,
     exc |-> exc, msg |-> msg, ret |-> ret]

\* a run of the __main__ block: argv (an absent argument is ""), where the
\* run is, the lines printed on stdout, the message on stderr, the exit status
Cli(command, name, start, end, pc, out, err, status) ==
    [command |-> command, name |-> name, start |-> start, end |-> end,
     pc |-> pc, out |-> out, err |-> err, status |-> status]

\* the module is imported, not run as a script
NoCli == Cli("", "", "", "", "none", <<>>, "", 0)

\* the lowest address not in use
Fresh(used) ==
    CHOOSE a \in 1..(Cardinality(used) + 1) :
        a \notin used /\ \A b \in 1..(a - 1) : b \in used

\* the Task values a list of Task references denotes, in list order
Deref(h, l) == [i \in 1..Len(l) |-> h[l[i]]]

RECURSIVE Dedup(_, _)
\* the elements of l that are not in seen, each once, in order of first occurrence
Dedup(l, seen) ==
    IF l = <<>> THEN <<>>
    ELSE IF Head(l) \in seen THEN Dedup(Tail(l), seen)
    ELSE <<Head(l)>> \o Dedup(Tail(l), seen \cup {Head(l)})

\* the position of a in the duplicate-free sequence l
IndexOf(l, a) == CHOOSE i \in 1..Len(l) : l[i] = a

\* Reference counting: only the objects reachable from self._tasks of the
\* two Schedulers (tref, oref) and from the caller's list (sref) stay.
\* Addresses are not observable by the program, so the surviving objects are
\* renamed to a normal form: the list of the Scheduler in use is 1, a list of
\* the caller that is no Scheduler's list is 2, a distinct list of the other
\* Scheduler is 3, and the Tasks are numbered in order of first occurrence
\* in these lists.
Collect(h, ls, tref, sref, oref) ==
    LET hasOther == oref # 0 /\ oref # tref
        own   == sref # 0 /\ sref # tref /\ sref # oref
        order == Dedup(ls[tref] \o (IF own THEN ls[sref] ELSE <<>>)
                                \o (IF hasOther THEN ls[oref] ELSE <<>>), {})
        ren(l) == [i \in 1..Len(l) |-> IndexOf(order, l[i])]
        roots == {1} \cup (IF own THEN {2} ELSE {}) \cup (IF hasOther THEN {3} ELSE {})
        old(r) == IF r = 1 THEN tref ELSE IF r = 2 THEN sref ELSE oref
        newOther == IF oref = 0 THEN 0 ELSE IF hasOther THEN 3 ELSE 1
    IN  [heap     |-> [a \in 1..Len(order) |-> h[order[a]]],
         lists    |-> [r \in roots |-> ren(ls[old(r)])],
         tasksRef |-> 1,
         snapRef  |-> IF sref = 0 THEN 0 ELSE IF own THEN 2
                      ELSE IF sref = tref THEN 1 ELSE newOther,
         otherRef |-> newOther]

----------------------------------------------------------------------------
(* Scheduler methods *)

RECURSIVE has_conflict_swapped(_, _, _)
\* has_conflict comparing against the wrong field of the stored task
has_conflict_swapped(ts, start, end) ==
    IF ts = <<>> THEN FALSE
    ELSE IF start < Head(ts).start /\ end > Head(ts).end THEN TRUE
    ELSE has_conflict_swapped(Tail(ts), start, end)

RECURSIVE has_conflict_start_only(_, _, _)
\* has_conflict that only asks whether the new start lies inside a stored task
has_conflict_start_only(ts, start, end) ==
    IF ts = <<>> THEN FALSE
    ELSE IF Head(ts).start <= start /\ start < Head(ts).end THEN TRUE
    ELSE has_conflict_start_only(Tail(ts), start, end)

RECURSIVE has_conflict_closed(_, _, _)
\* has_conflict with closed intervals: <= and >= in place of < and >
has_conflict_closed(ts, start, end) ==
    IF ts = <<>> THEN FALSE
    ELSE IF start <= Head(ts).end /\ end >= Head(ts).start THEN TRUE
    ELSE has_conflict_closed(Tail(ts), start, end)

\* has_conflict that returns from the first iteration of the loop
has_conflict_first(ts, start, end) ==
    IF ts = <<>> THEN FALSE
    ELSE start < ts[1].end /\ end > ts[1].start

RECURSIVE has_conflict_contained(_, _, _)
\* has_conflict that only finds an interval lying inside a stored task
has_conflict_contained(ts, start, end) ==
    IF ts = <<>> THEN FALSE
    ELSE IF start >= Head(ts).start /\ end <= Head(ts).end THEN TRUE
    ELSE has_conflict_contained(Tail(ts), start, end)

RECURSIVE has_conflict_end_only(_, _, _)
\* has_conflict that only asks whether the new end lies inside a stored task
has_conflict_end_only(ts, start, end) ==
    IF ts = <<>> THEN FALSE
    ELSE IF Head(ts).start < end /\ end <= Head(ts).end THEN TRUE
    ELSE has_conflict_end_only(Tail(ts), start, end)

RECURSIVE has_conflict_from(_, _, _, _)
has_conflict_from(ts, i, start, end) ==
    IF i > Len(ts) THEN FALSE
    ELSE IF start < ts[i].end /\ end > ts[i].start THEN TRUE
    ELSE has_conflict_from(ts, i + 1, start, end)

\* Scheduler.has_conflict over the stored Task values
has_conflict(ts, start, end) == has_conflict_from(ts, 1, start, end)

\* add_task with its two checks in the other order
add_task_checks_swapped(h, l, name, start, end) ==
    IF has_conflict(Deref(h, l), start, end)
    THEN [exc |-> "ValueError", msg |-> ConflictMsg, heap |-> h, list |-> l]
    ELSE IF end <= start
    THEN [exc |-> "ValueError", msg |-> EndBeforeStartMsg, heap |-> h, list |-> l]
    ELSE LET a == Fresh(DOMAIN h)
         IN  [exc |-> "", msg |-> "",
              heap |-> (a :> Task(name, start, end)) @@ h,
              list |-> Append(l, a)]

\* add_task that appends before it looks for a conflict
add_task_append_first(h, l, name, start, end) ==
    IF end <= start
    THEN [exc |-> "ValueError", msg |-> EndBeforeStartMsg, heap |-> h, list |-> l]
    ELSE LET a == Fresh(DOMAIN h)
             h2 == (a :> Task(name, start, end)) @@ h
             l2 == Append(l, a)
         IN  IF has_conflict(Deref(h, l), start, end)
             THEN [exc |-> "ValueError", msg |-> ConflictMsg,
                   heap |-> h2, list |-> l2]
             ELSE [exc |-> "", msg |-> "", heap |-> h2, list |-> l2]

\* add_task that inserts the new task at the front
add_task_prepend(h, l, name, start, end) ==
    IF end <= start
    THEN [exc |-> "ValueError", msg |-> EndBeforeStartMsg, heap |-> h, list |-> l]
    ELSE IF has_conflict(Deref(h, l), start, end)
    THEN [exc |-> "ValueError", msg |-> ConflictMsg, heap |-> h, list |-> l]
    ELSE LET a == Fresh(DOMAIN h)
         IN  [exc |-> "", msg |-> "",
              heap |-> (a :> Task(name, start, end)) @@ h,
              list |-> <<a>> \o l]

\* add_task that raises both errors with one and the same message
add_task_same_message(h, l, name, start, end) ==
    IF end <= start
    THEN [exc |-> "ValueError", msg |-> "Invalid task", heap |-> h, list |-> l]
    ELSE IF has_conflict(Deref(h, l), start, end)
    THEN [exc |-> "ValueError", msg |-> "Invalid task", heap |-> h, list |-> l]
    ELSE LET a == Fresh(DOMAIN h)
         IN  [exc |-> "", msg |-> "",
              heap |-> (a :> Task(name, start, end)) @@ h,
              list |-> Append(l, a)]

\* add_task that passes start and end to Task the wrong way round
add_task_fields_swapped(h, l, name, start, end) ==
    IF end <= start
    THEN [exc |-> "ValueError", msg |-> EndBeforeStartMsg, heap |-> h, list |-> l]
    ELSE IF has_conflict(Deref(h, l), start, end)
    THEN [exc |-> "ValueError", msg |-> ConflictMsg, heap |-> h, list |-> l]
    ELSE LET a == Fresh(DOMAIN h)
         IN  [exc |-> "", msg |-> "",
              heap |-> (a :> Task(name, end, start)) @@ h,
              list |-> Append(l, a)]

\* add_task that tests end < start, and so lets end = start through
add_task_zero_duration(h, l, name, start, end) ==
    IF end < start
    THEN [exc |-> "ValueError", msg |-> EndBeforeStartMsg, heap |-> h, list |-> l]
    ELSE IF has_conflict(Deref(h, l), start, end)
    THEN [exc |-> "ValueError", msg |-> ConflictMsg, heap |-> h, list |-> l]
    ELSE LET a == Fresh(DOMAIN h)
         IN  [exc |-> "", msg |-> "",
              heap |-> (a :> Task(name, start, end)) @@ h,
              list |-> Append(l, a)]

\* add_task that also refuses a name the registry already holds
add_task_unique_names(h, l, name, start, end) ==
    IF end <= start
    THEN [exc |-> "ValueError", msg |-> EndBeforeStartMsg, heap |-> h, list |-> l]
    ELSE IF \/ has_conflict(Deref(h, l), start, end)
            \/ \E i \in 1..Len(l) : h[l[i]].name = name
    THEN [exc |-> "ValueError", msg |-> ConflictMsg, heap |-> h, list |-> l]
    ELSE LET a == Fresh(DOMAIN h)
         IN  [exc |-> "", msg |-> "",
              heap |-> (a :> Task(name, start, end)) @@ h,
              list |-> Append(l, a)]

\* Scheduler.add_task on the heap h and the content l of self._tasks
add_task(h, l, name, start, end) ==
    IF end <= start
    THEN [exc |-> "ValueError", msg |-> EndBeforeStartMsg, heap |-> h, list |-> l]
    ELSE IF has_conflict(Deref(h, l), start, end)
    THEN [exc |-> "ValueError", msg |-> ConflictMsg, heap |-> h, list |-> l]
    ELSE LET a == Fresh(DOMAIN h)
         IN  [exc |-> "", msg |-> "",
              heap |-> (a :> Task(name, start, end)) @@ h,
              list |-> Append(l, a)]

\* remove_task that removes the first task of that name only
remove_task_first(h, l, name) ==
    IF \E i \in 1..Len(l) : h[l[i]].name = name
    THEN LET k == CHOOSE i \in 1..Len(l) :
                      /\ h[l[i]].name = name
                      /\ \A j \in 1..(i - 1) : h[l[j]].name # name
         IN  SubSeq(l, 1, k - 1) \o SubSeq(l, k + 1, Len(l))
    ELSE l

RECURSIVE remove_while_iterating(_, _, _, _)
\* for t in l: if t.name == name: l.remove(t) -- the loop index moves on
\* after a removal, so the task after a removed one is not looked at
remove_while_iterating(h, l, i, name) ==
    IF i > Len(l) THEN l
    ELSE IF h[l[i]].name = name
         THEN remove_while_iterating(
                  h, SubSeq(l, 1, i - 1) \o SubSeq(l, i + 1, Len(l)), i + 1, name)
         ELSE remove_while_iterating(h, l, i + 1, name)

\* remove_task that removes from the list while it iterates over it
remove_task_iterating(h, l, name) == remove_while_iterating(h, l, 1, name)

\* remove_task with the test the wrong way round: keeps the tasks of that name
remove_task_inverted(h, l, name) ==
    SelectSeq(l, LAMBDA a : h[a].name = name)

RECURSIVE remove_task(_, _, _)
\* Scheduler.remove_task: the comprehension [t for t in l if t.name != name]
remove_task(h, l, name) ==
    IF l = <<>> THEN <<>>
    ELSE IF h[Head(l)].name # name
         THEN <<Head(l)>> \o remove_task(h, Tail(l), name)
         ELSE remove_task(h, Tail(l), name)

\* Scheduler.list_tasks: list(self._tasks), the content of the new list object
list_tasks(l) == [i \in 1..Len(l) |-> l[i]]

----------------------------------------------------------------------------
(* State *)

Init ==
    /\ heap = <<>>
    /\ lists = (1 :> <<>>)
    /\ tasksRef = 1
    /\ snapRef = 0
    /\ otherRef = 0
    /\ cli = NoCli
    /\ call = Call("__init__", "", 0, 0, "", "", FALSE)

\* the Task values stored in the registry, in sequence order
Tasks == Deref(heap, lists[tasksRef])

\* the Task values stored in the other Scheduler
OtherTasks == IF otherRef = 0 THEN <<>> ELSE Deref(heap, lists[otherRef])

\* the Task values of the list the caller holds
Snap == IF snapRef = 0 THEN <<>> ELSE Deref(heap, lists[snapRef])

CommitCli(h, ls, tref, sref, oref, c, k) ==
    LET g == Collect(h, ls, tref, sref, oref)
    IN  /\ heap' = g.heap
        /\ lists' = g.lists
        /\ tasksRef' = g.tasksRef
        /\ snapRef' = g.snapRef
        /\ otherRef' = g.otherRef
        /\ call' = c
        /\ cli' = k

\* a step of a caller that is not the __main__ block
CommitAll(h, ls, tref, sref, oref, c) ==
    CommitCli(h, ls, tref, sref, oref, c, cli)

\* a step that leaves the other Scheduler object as it is
Commit(h, ls, tref, sref, c) == CommitAll(h, ls, tref, sref, otherRef, c)

\* A call of add_task by the caller.  The callers of the repository (the
\* __main__ block and the tests) use the list they got from list_tasks before
\* their next call that changes the registry; so does the caller here: it
\* lets go of the list it holds when it calls add_task or remove_task.
AddTaskIn(names, times) ==
    \E name \in names, start \in times, end \in times :
        LET r == add_task(heap, lists[tasksRef], name, start, end)
        IN  /\ Cardinality(DOMAIN r.heap) <= MaxTasks
            /\ Commit(r.heap, [lists EXCEPT ![tasksRef] = r.list],
                      tasksRef, 0,
                      Call("add_task", name, start, end, r.exc, r.msg, FALSE))

AddTask == AddTaskIn(Names, Times)

\* list_tasks that returns self._tasks itself, not a new list
ListTasksAlias ==
    Commit(heap, lists, tasksRef, tasksRef,
           Call("list_tasks", "", 0, 0, "", "", FALSE))

\* A call of list_tasks: the caller holds the returned list object from now on.
ListTasks ==
    LET new == Fresh(DOMAIN lists \cup {1, 2, 3})
    IN  Commit(heap, (new :> list_tasks(lists[tasksRef])) @@ lists,
               tasksRef, new,
               Call("list_tasks", "", 0, 0, "", "", FALSE))

\* A call of remove_task: self._tasks is bound to the new list object.
RemoveTaskIn(names) ==
    \E name \in names :
        LET new == Fresh(DOMAIN lists \cup {1, 2, 3})
        IN  Commit(heap,
                   (new :> remove_task(heap, lists[tasksRef], name)) @@ lists,
                   new, 0,
                   Call("remove_task", name, 0, 0, "", "", FALSE))

RemoveTask == RemoveTaskIn(Names)

\* A call of has_conflict.
HasConflictIn(times) ==
    \E start \in times, end \in times :
        Commit(heap, lists, tasksRef, snapRef,
               Call("has_conflict", "", start, end, "", "",
                    has_conflict(Tasks, start, end)))

HasConflict == HasConflictIn(Times)

----------------------------------------------------------------------------
(* The caller changes the list object it got from list_tasks *)

\* l.append(l[i])
SnapAppend ==
    /\ snapRef # 0
    /\ Len(lists[snapRef]) < MaxSnap
    /\ \E i \in 1..Len(lists[snapRef]) :
        Commit(heap,
               [lists EXCEPT ![snapRef] = Append(@, lists[snapRef][i])],
               tasksRef, snapRef,
               Call("list.append", "", 0, 0, "", "", FALSE))

\* del l[i]
SnapDelete ==
    /\ snapRef # 0
    /\ \E i \in 1..Len(lists[snapRef]) :
        Commit(heap,
               [lists EXCEPT ![snapRef] =
                   SubSeq(@, 1, i - 1) \o SubSeq(@, i + 1, Len(@))],
               tasksRef, snapRef,
               Call("list.__delitem__", "", 0, 0, "", "", FALSE))

\* l.reverse()
SnapReverse ==
    /\ snapRef # 0
    /\ Commit(heap,
              [lists EXCEPT ![snapRef] =
                  [i \in 1..Len(@) |-> @[Len(@) + 1 - i]]],
              tasksRef, snapRef,
              Call("list.reverse", "", 0, 0, "", "", FALSE))

----------------------------------------------------------------------------
(* The caller assigns to a field of a Task of the list it got from          *)
(* list_tasks; Task is a plain dataclass, its fields can be assigned.       *)

\* l[i].name = name
TaskSetName ==
    /\ snapRef # 0
    /\ \E i \in 1..Len(lists[snapRef]), name \in Names :
        Commit([heap EXCEPT ![lists[snapRef][i]].name = name],
               lists, tasksRef, snapRef,
               Call("Task.name", name, 0, 0, "", "", FALSE))

\* l[i].start = start
TaskSetStart ==
    /\ snapRef # 0
    /\ \E i \in 1..Len(lists[snapRef]), start \in Times :
        Commit([heap EXCEPT ![lists[snapRef][i]].start = start],
               lists, tasksRef, snapRef,
               Call("Task.start", "", start, 0, "", "", FALSE))

\* l[i].end = end
TaskSetEnd ==
    /\ snapRef # 0
    /\ \E i \in 1..Len(lists[snapRef]), end \in Times :
        Commit([heap EXCEPT ![lists[snapRef][i]].end = end],
               lists, tasksRef, snapRef,
               Call("Task.end", "", 0, end, "", "", FALSE))

----------------------------------------------------------------------------
(* A second Scheduler instance *)

\* Scheduler() whose __init__ binds self._tasks to a list all instances share
NewSchedulerShared ==
    /\ otherRef = 0
    /\ CommitAll(heap, lists, tasksRef, snapRef, tasksRef,
                 Call("__init__", "", 0, 0, "", "", FALSE))

\* Scheduler(): __init__ binds self._tasks of the new object to a new list
NewScheduler ==
    /\ otherRef = 0
    /\ LET new == Fresh(DOMAIN lists \cup {1, 2, 3})
       IN  CommitAll(heap, (new :> <<>>) @@ lists, tasksRef, snapRef, new,
                     Call("__init__", "", 0, 0, "", "", FALSE))

\* The caller turns to the other Scheduler: its next calls are on that one.
\* It lets go of the list it holds, as before a call that changes a registry.
Select ==
    /\ otherRef # 0
    /\ CommitAll(heap, lists, otherRef, 0, tasksRef,
                 Call("select", "", 0, 0, "", "", FALSE))

----------------------------------------------------------------------------
(* The command-line front end: the __main__ block, run on one argv *)

CliCommands == {"add", "list", "remove"}
CliNameArgs == {"", "A"}
CliTimeArgs == {"", "soon", "2024-05-01T09:00", "2024-05-01T09:10"}

TaskAdded == [text |-> "Task added", task |-> <<>>]
TaskRemoved == [text |-> "Task removed", task |-> <<>>]

\* the line f"{task.name}: {task.start} -> {task.end}"
TaskLine(t) == [text |-> "{name}: {start} -> {end}", task |-> <<t>>]

AddUsageMsg == "add requires name, start and end"
RemoveUsageMsg == "remove requires task name"
IsoFormatMsg == "Invalid isoformat string"

\* datetime.fromisoformat on the argument texts, in minutes after 09:00
fromisoformat(text) ==
    IF text = "2024-05-01T09:00" THEN [ok |-> TRUE, value |-> 0]
    ELSE IF text = "2024-05-01T09:10" THEN [ok |-> TRUE, value |-> 10]
    ELSE [ok |-> FALSE, value |-> 0]

\* parser.error(msg): usage and msg on stderr, exit status 2
ParserError(msg) == Cli(cli.command, cli.name, cli.start, cli.end,
                        "done", cli.out, msg, 2)

\* an exception nobody catches: traceback with msg on stderr, exit status 1
Uncaught(msg) == Cli(cli.command, cli.name, cli.start, cli.end,
                     "done", cli.out, msg, 1)

\* the script runs to its end after printing the lines: exit status 0
Printed(lines) == Cli(cli.command, cli.name, cli.start, cli.end,
                      "done", cli.out \o lines, "", 0)

\* the add branch with a try/except that swallows the error of add_task
CliAddSwallow ==
    /\ cli.pc = "start"
    /\ cli.command = "add"
    /\ IF cli.name = "" \/ cli.start = "" \/ cli.end = ""
       THEN CommitCli(heap, lists, tasksRef, snapRef, otherRef, call,
                      ParserError(AddUsageMsg))
       ELSE IF ~fromisoformat(cli.start).ok \/ ~fromisoformat(cli.end).ok
       THEN CommitCli(heap, lists, tasksRef, snapRef, otherRef, call,
                      Uncaught(IsoFormatMsg))
       ELSE LET start_dt == fromisoformat(cli.start).value
                end_dt == fromisoformat(cli.end).value
                r == add_task(heap, lists[tasksRef], cli.name, start_dt, end_dt)
            IN  CommitCli(r.heap, [lists EXCEPT ![tasksRef] = r.list],
                          tasksRef, snapRef, otherRef,
                          Call("add_task", cli.name, start_dt, end_dt,
                               r.exc, r.msg, FALSE),
                          Printed(<<TaskAdded>>))

\* python scheduler.py add NAME START END
CliAdd ==
    /\ cli.pc = "start"
    /\ cli.command = "add"
    /\ IF cli.name = "" \/ cli.start = "" \/ cli.end = ""
       THEN CommitCli(heap, lists, tasksRef, snapRef, otherRef, call,
                      ParserError(AddUsageMsg))
       ELSE IF ~fromisoformat(cli.start).ok \/ ~fromisoformat(cli.end).ok
       THEN CommitCli(heap, lists, tasksRef, snapRef, otherRef, call,
                      Uncaught(IsoFormatMsg))
       ELSE LET start_dt == fromisoformat(cli.start).value
                end_dt == fromisoformat(cli.end).value
                r == add_task(heap, lists[tasksRef], cli.name, start_dt, end_dt)
            IN  CommitCli(r.heap, [lists EXCEPT ![tasksRef] = r.list],
                          tasksRef, snapRef, otherRef,
                          Call("add_task", cli.name, start_dt, end_dt,
                               r.exc, r.msg, FALSE),
                          IF r.exc # "" THEN Uncaught(r.msg)
                          ELSE Printed(<<TaskAdded>>))

\* python scheduler.py list
CliList ==
    /\ cli.pc = "start"
    /\ cli.command = "list"
    /\ LET new == Fresh(DOMAIN lists \cup {1, 2, 3})
           l == list_tasks(lists[tasksRef])
       IN  CommitCli(heap, (new :> l) @@ lists, tasksRef, 0, otherRef,
                     Call("list_tasks", "", 0, 0, "", "", FALSE),
                     Printed([i \in 1..Len(l) |-> TaskLine(heap[l[i]])]))

\* python scheduler.py remove NAME
CliRemove ==
    /\ cli.pc = "start"
    /\ cli.command = "remove"
    /\ IF cli.name = ""
       THEN CommitCli(heap, lists, tasksRef, snapRef, otherRef, call,
                      ParserError(RemoveUsageMsg))
       ELSE LET new == Fresh(DOMAIN lists \cup {1, 2, 3})
            IN  CommitCli(heap,
                          (new :> remove_task(heap, lists[tasksRef], cli.name))
                              @@ lists,
                          new, 0, otherRef,
                          Call("remove_task", cli.name, 0, 0, "", "", FALSE),
                          Printed(<<TaskRemoved>>))

\* the script starts on some argv, with the Scheduler of line 45
InitCli ==
    /\ heap = <<>>
    /\ lists = (1 :> <<>>)
    /\ tasksRef = 1
    /\ snapRef = 0
    /\ otherRef = 0
    /\ call = Call("__init__", "", 0, 0, "", "", FALSE)
    /\ \E command \in CliCommands, name \in CliNameArgs,
          start \in CliTimeArgs, end \in CliTimeArgs :
            cli = Cli(command, name, start, end, "start", <<>>, "", 0)

----------------------------------------------------------------------------
(* Specifications *)

\* the four operations of the registry
NextCore == AddTask \/ ListTasks \/ RemoveTask \/ HasConflict

SpecCore == Init /\ [][NextCore]_vars

\* the four operations, and a caller that changes the list it was given
NextCaller == NextCore \/ SnapAppend \/ SnapDelete \/ SnapReverse

SpecCaller == Init /\ [][NextCaller]_vars

\* the same, and a caller that also assigns to the Tasks of that list
Next == NextCaller \/ TaskSetName \/ TaskSetStart \/ TaskSetEnd

Spec == Init /\ [][Next]_vars

\* The four operations on the names and instants of the scenario of the
\* specification, section 8: minutes after 2024-05-01T09:00.
ScenarioNames == {"Standup", "Overlap"}
ScenarioTimes == {0, 10, 15, 30}

ScenarioAdd == AddTaskIn(ScenarioNames, ScenarioTimes)
ScenarioRemove == RemoveTaskIn(ScenarioNames)
ScenarioHasConflict == HasConflictIn(ScenarioTimes)

NextScenario == ScenarioAdd \/ ListTasks \/ ScenarioRemove \/ ScenarioHasConflict

SpecScenario == Init /\ [][NextScenario]_vars

\* The four operations on two Scheduler instances.  All tasks get the same
\* name, so that remove_task on one instance always names tasks of the other.
TwoNames == {"A"}

TwoAdd == AddTaskIn(TwoNames, Times)
TwoRemove == RemoveTaskIn(TwoNames)

NextTwo ==
    TwoAdd \/ ListTasks \/ TwoRemove \/ HasConflict \/ NewScheduler \/ Select

SpecTwo == Init /\ [][NextTwo]_vars

\* one run of the command-line front end
NextCli == CliAdd \/ CliList \/ CliRemove

SpecCli == InitCli /\ [][NextCli]_vars

----------------------------------------------------------------------------
(* Properties *)

\* the half-open overlap predicate of two intervals [s1,e1) and [s2,e2)
Overlap(s1, e1, s2, e2) == s1 < e2 /\ s2 < e1

\* stored task t overlaps the interval of the call c
OverlapsCall(t, c) == Overlap(t.start, t.end, c.start, c.end)

IsFailedAdd(c) == c.op = "add_task" /\ c.exc # ""

CallerListOps == {"list.append", "list.__delitem__", "list.reverse"}

CallerTaskOps == {"Task.name", "Task.start", "Task.end"}

\* C1: in every state reached by add_task, remove_task, list_tasks and
\* has_conflict calls, no two tasks at different positions of the registry
\* overlap under the half-open predicate.
C1_NoOverlap ==
    \A i, j \in 1..Len(Tasks) :
        i # j => ~Overlap(Tasks[i].start, Tasks[i].end,
                          Tasks[j].start, Tasks[j].end)

C1_Witness ==
    /\ call.op = "add_task"
    /\ call.exc = ""
    /\ Len(Tasks) = 2

\* C2: an add_task call that fails, with either error, leaves the task
\* sequence of the registry as it was, in content and in order.
C2_FailedAddChangesNothing ==
    [][IsFailedAdd(call') => Tasks' = Tasks]_vars

C2_Witness ==
    /\ IsFailedAdd(call)
    /\ call.msg = ConflictMsg
    /\ Tasks # <<>>

\* C3: an add_task call with end <= start fails with the duration error,
\* never with the conflict error, also when the interval overlaps a stored
\* task under the half-open predicate.
C3_NonPositiveDuration ==
    (call.op = "add_task" /\ call.end <= call.start)
        => (call.exc = "ValueError" /\ call.msg = EndBeforeStartMsg)

C3_Witness ==
    /\ call.op = "add_task"
    /\ call.end <= call.start
    /\ \E i \in 1..Len(Tasks) : OverlapsCall(Tasks[i], call)

\* C4 as stated: an add_task call whose interval overlaps a stored task under
\* the half-open predicate fails with the conflict error.
C4_OverlapIsConflict ==
    [][(call'.op = "add_task"
            /\ \E i \in 1..Len(Tasks) : OverlapsCall(Tasks[i], call'))
        => (call'.exc = "ValueError" /\ call'.msg = ConflictMsg)]_vars

\* C4 (amended): an add_task call with end > start whose interval overlaps a
\* stored task under the half-open predicate fails with the conflict error.
C4_ValidOverlapIsConflict ==
    [][(call'.op = "add_task"
            /\ call'.end > call'.start
            /\ \E i \in 1..Len(Tasks) : OverlapsCall(Tasks[i], call'))
        => (call'.exc = "ValueError" /\ call'.msg = ConflictMsg)]_vars

C4_Witness ==
    /\ call.op = "add_task"
    /\ call.end > call.start
    /\ call.msg = ConflictMsg
    /\ \E i \in 1..Len(Tasks) : OverlapsCall(Tasks[i], call)

\* C5: touching intervals do not conflict.  An add_task call with end > start
\* succeeds when every stored task touches its interval (ends at its start or
\* starts at its end), in particular [a,b) then [b,c) and [b,c) then [a,b);
\* and a conflict error is always due to a stored task that does not touch
\* the interval and overlaps it.
C5_TouchingIsNoConflict ==
    [][(call'.op = "add_task" /\ call'.end > call'.start)
        => /\ (\A i \in 1..Len(Tasks) :
                    \/ Tasks[i].end = call'.start
                    \/ Tasks[i].start = call'.end)
                => call'.exc = ""
           /\ call'.msg = ConflictMsg
                => \E i \in 1..Len(Tasks) :
                       /\ Tasks[i].end # call'.start
                       /\ Tasks[i].start # call'.end
                       /\ OverlapsCall(Tasks[i], call')]_vars

C5_Witness ==
    /\ call.op = "add_task"
    /\ call.exc = ""
    /\ Len(Tasks) = 2
    /\ Tasks[2] = Task(call.name, call.start, call.end)
    /\ Tasks[1].end = Tasks[2].start

\* C6: a successful add_task(name, start, end) leaves the previous sequence
\* followed by the one new Task (name, start, end): the new task is last,
\* whatever its place in time, and the earlier tasks keep fields and position.
C6_AddAppends ==
    [][(call'.op = "add_task" /\ call'.exc = "")
        => Tasks' = Append(Tasks, Task(call'.name, call'.start, call'.end))]_vars

C6_Witness ==
    /\ call.op = "add_task"
    /\ call.exc = ""
    /\ Len(Tasks) = 2
    /\ Tasks[2] = Task(call.name, call.start, call.end)
    /\ Tasks[2].start < Tasks[1].start

\* the subsequence of ts of the tasks whose name differs from name
WithoutName(ts, name) == SelectSeq(ts, LAMBDA t : t.name # name)

\* C7: remove_task(name) never fails and leaves exactly the tasks whose name
\* differs from name, in their previous relative order: all tasks of that
\* name are gone, the others are unchanged, and nothing changes when no
\* task has the name.
C7_RemoveFilters ==
    [][call'.op = "remove_task"
        => /\ call'.exc = ""
           /\ Tasks' = WithoutName(Tasks, call'.name)
           /\ (\A i \in 1..Len(Tasks) : Tasks[i].name # call'.name)
                => Tasks' = Tasks]_vars

C7_Witness ==
    /\ call.op = "remove_task"
    /\ Len(Tasks) = 1
    /\ Tasks[1].name # call.name

\* C8: list_tasks returns a new list with the current tasks in registry
\* order, and no append to, deletion from or reordering of the returned list
\* changes the registry: list_tasks and has_conflict give afterwards what
\* they gave before.
C8_ListIsSnapshot ==
    [][/\ call'.op = "list_tasks"
            => /\ snapRef' # 0
               /\ snapRef' # tasksRef'
               /\ Snap' = Tasks'
               /\ Tasks' = Tasks
       /\ call'.op \in CallerListOps
            => /\ Tasks' = Tasks
               /\ Deref(heap', list_tasks(lists'[tasksRef']))
                    = Deref(heap, list_tasks(lists[tasksRef]))
               /\ \A s, e \in Times :
                    has_conflict(Tasks', s, e) = has_conflict(Tasks, s, e)]_vars

C8_Witness ==
    /\ call.op \in CallerListOps
    /\ Tasks # <<>>
    /\ Snap # Tasks

\* C9: assigning to the name, start or end of a Task obtained from
\* list_tasks does not change the tasks stored in the registry.
C9_ReturnedTasksAreCopies ==
    [][call'.op \in CallerTaskOps => Tasks' = Tasks]_vars

\* C10: has_conflict(start, end) returns true exactly when some stored task T
\* has start < T.end and T.start < end, for every pair of instants; it never
\* fails and leaves the task sequence unchanged.
C10_HasConflictIsPureQuery ==
    [][call'.op = "has_conflict"
        => /\ call'.ret = (\E i \in 1..Len(Tasks) :
                              /\ call'.start < Tasks[i].end
                              /\ Tasks[i].start < call'.end)
           /\ call'.exc = ""
           /\ Tasks' = Tasks]_vars

C10_Witness ==
    /\ call.op = "has_conflict"
    /\ call.ret
    /\ Len(Tasks) = 2
    /\ ~OverlapsCall(Tasks[1], call)

\* C11: removal is idempotent.  After a remove_task(name) call a second
\* remove_task(name) would leave the same sequence, and a remove_task(name)
\* call that directly follows a remove_task(name) call changes nothing.
C11_RemoveIdempotent ==
    [][call'.op = "remove_task"
        => /\ Deref(heap', remove_task(heap', lists'[tasksRef'], call'.name))
                = Tasks'
           /\ (call.op = "remove_task" /\ call.name = call'.name)
                => Tasks' = Tasks]_vars

C11_Witness ==
    /\ call.op = "remove_task"
    /\ Len(Tasks) = 2
    /\ \A i \in 1..Len(Tasks) : Tasks[i].name # call.name

\* C12: the two failures of add_task are different values and every failed
\* add_task reports exactly one of them, the one of the check that failed:
\* the duration error iff end <= start, the conflict error iff end > start
\* and a stored task overlaps the interval.
C12_ErrorsDistinguishable ==
    [][IsFailedAdd(call')
        => /\ EndBeforeStartMsg # ConflictMsg
           /\ call'.exc = "ValueError"
           /\ call'.msg \in {EndBeforeStartMsg, ConflictMsg}
           /\ call'.msg = EndBeforeStartMsg <=> call'.end <= call'.start
           /\ call'.msg = ConflictMsg
                <=> /\ call'.end > call'.start
                    /\ \E i \in 1..Len(Tasks) : OverlapsCall(Tasks[i], call')]_vars

C12_Witness ==
    /\ IsFailedAdd(call)
    /\ call.msg = EndBeforeStartMsg
    /\ Tasks # <<>>
    /\ \A i \in 1..Len(Tasks) : ~OverlapsCall(Tasks[i], call)

\* C13: add_task(name, start, end) with end > start on an empty registry
\* succeeds, and list_tasks then returns exactly one entry with that name,
\* start and end.
C13_AddToEmptyThenList ==
    [][/\ (Tasks = <<>> /\ call'.op = "add_task" /\ call'.end > call'.start)
            => /\ call'.exc = ""
               /\ Deref(heap', list_tasks(lists'[tasksRef']))
                    = <<Task(call'.name, call'.start, call'.end)>>
       /\ (call.op = "add_task" /\ call.exc = "" /\ Len(Tasks) = 1
                /\ call'.op = "list_tasks")
            => Snap' = <<Task(call.name, call.start, call.end)>>]_vars

C13_Witness ==
    /\ call.op = "list_tasks"
    /\ Len(Snap) = 1
    /\ Snap = Tasks

\* C14: every task stored in the registry has end > start, in every state
\* reached by add_task and remove_task (and the two queries).
C14_PositiveDuration ==
    \A i \in 1..Len(Tasks) : Tasks[i].end > Tasks[i].start

C14_Witness ==
    /\ call.op = "add_task"
    /\ call.end <= call.start
    /\ Len(Tasks) = 2

Standup == Task("Standup", 0, 15)

\* C15: the scenario, step by step.  On an empty registry
\* add_task("Standup", 09:00, 09:15) succeeds; list_tasks then returns one
\* entry named "Standup" with these bounds; add_task("Overlap", 09:10, 09:30)
\* then fails with the conflict error and leaves the tasks unchanged; after
\* remove_task("Standup") list_tasks returns the empty list.
C15_Scenario ==
    [][/\ (Tasks = <<>> /\ call'.op = "add_task" /\ call'.name = "Standup"
                /\ call'.start = 0 /\ call'.end = 15)
            => (call'.exc = "" /\ Tasks' = <<Standup>>)
       /\ (Tasks = <<Standup>> /\ call'.op = "list_tasks")
            => (snapRef' # 0 /\ Snap' = <<Standup>>)
       /\ (Tasks = <<Standup>> /\ call'.op = "add_task" /\ call'.name = "Overlap"
                /\ call'.start = 10 /\ call'.end = 30)
            => (call'.exc = "ValueError" /\ call'.msg = ConflictMsg
                    /\ Tasks' = <<Standup>>)
       /\ (Tasks = <<Standup>> /\ call'.op = "remove_task"
                /\ call'.name = "Standup")
            => Tasks' = <<>>
       /\ (Tasks = <<>> /\ call.op = "remove_task" /\ call'.op = "list_tasks")
            => (snapRef' # 0 /\ Snap' = <<>>)]_vars

C15_Witness ==
    /\ Tasks = <<Standup>>
    /\ call = Call("add_task", "Overlap", 10, 30, "ValueError", ConflictMsg, FALSE)

RegistryOps == {"add_task", "list_tasks", "remove_task", "has_conflict"}

\* C16: Scheduler instances are independent.  A new instance starts empty
\* and leaves the existing one as it is; no add_task, list_tasks, remove_task
\* or has_conflict call on one instance changes the task sequence of the
\* other, nor what has_conflict and add_task answer on the other.
C16_InstancesIndependent ==
    [][/\ call'.op = "__init__"
            => /\ otherRef' # 0
               /\ otherRef' # tasksRef'
               /\ OtherTasks' = <<>>
               /\ Tasks' = Tasks
       /\ call'.op \in RegistryOps
            => /\ OtherTasks' = OtherTasks
               /\ (otherRef' = 0) = (otherRef = 0)
               /\ \A s, e \in Times :
                    /\ has_conflict(OtherTasks', s, e)
                            = has_conflict(OtherTasks, s, e)
                    /\ otherRef # 0 =>
                            add_task(heap', lists'[otherRef'], "A", s, e).exc
                                = add_task(heap, lists[otherRef], "A", s, e).exc
       /\ call'.op = "select"
            => (Tasks' = OtherTasks /\ OtherTasks' = Tasks)]_vars

C16_Witness ==
    /\ otherRef # 0
    /\ call.op = "add_task"
    /\ call.exc = ""
    /\ Tasks # <<>>
    /\ OtherTasks # <<>>
    /\ Tasks # OtherTasks

\* C17: an add_task call with end > start succeeds iff has_conflict of its
\* interval is false in the state it is called in; the outcome is the same
\* for every name, so a name the registry already holds is accepted when the
\* interval is free.
C17_AddIffNoConflict ==
    [][(call'.op = "add_task" /\ call'.end > call'.start)
        => /\ call'.exc = "" <=> ~has_conflict(Tasks, call'.start, call'.end)
           /\ \A n \in Names :
                add_task(heap, lists[tasksRef], n, call'.start, call'.end).exc
                    = call'.exc
           /\ (/\ \E i \in 1..Len(Tasks) : Tasks[i].name = call'.name
               /\ \A i \in 1..Len(Tasks) : ~OverlapsCall(Tasks[i], call'))
                => call'.exc = ""]_vars

C17_Witness ==
    /\ call.op = "add_task"
    /\ call.exc = ""
    /\ Len(Tasks) = 2
    /\ Tasks[1].name = Tasks[2].name

\* the stored tasks of ts that overlap [s, e) all have the name n
BlockedOnlyBy(ts, n, s, e) ==
    \A i \in 1..Len(ts) :
        Overlap(ts[i].start, ts[i].end, s, e) => ts[i].name = n

\* C18: remove_task only frees time.  For every interval, has_conflict false
\* before remove_task(name) is false after it; if it is true before and false
\* after, every stored task that overlapped the interval had that name; and
\* an interval with end > start blocked only by tasks of that name can be
\* added right after the call.
C18_RemoveOnlyFrees ==
    [][call'.op = "remove_task"
        => \A s, e \in Times :
            /\ ~has_conflict(Tasks, s, e) => ~has_conflict(Tasks', s, e)
            /\ (has_conflict(Tasks, s, e) /\ ~has_conflict(Tasks', s, e))
                => BlockedOnlyBy(Tasks, call'.name, s, e)
            /\ (e > s /\ BlockedOnlyBy(Tasks, call'.name, s, e))
                => add_task(heap', lists'[tasksRef'], call'.name, s, e).exc = ""]_vars

C18_Witness ==
    /\ call.op = "remove_task"
    /\ Len(Tasks) = 1
    /\ Tasks[1].name # call.name
    /\ \E s, e \in Times : s < e /\ ~has_conflict(Tasks, s, e)

\* the bijections of 1..n
Perms(n) == {f \in [1..n -> 1..n] : \A i, j \in 1..n : f[i] = f[j] => i = j}

RECURSIVE AddAll(_, _, _)
\* add_task of the tasks ts, in order, on the registry (h, l); ok is false
\* as soon as one call fails
AddAll(h, l, ts) ==
    IF ts = <<>> THEN [ok |-> TRUE, heap |-> h, list |-> l]
    ELSE LET r == add_task(h, l, Head(ts).name, Head(ts).start, Head(ts).end)
         IN  IF r.exc # "" THEN [ok |-> FALSE, heap |-> r.heap, list |-> r.list]
             ELSE AddAll(r.heap, r.list, Tail(ts))

\* C19: the stored sequence is a list of add_task calls that all succeed on
\* an empty registry; offered in any other order they all succeed too, and
\* the registry then holds the same tasks in that order.
C19_OrderIndependent ==
    /\ AddAll(<<>>, <<>>, Tasks).ok
    /\ \A p \in Perms(Len(Tasks)) :
        LET ts == [i \in 1..Len(Tasks) |-> Tasks[p[i]]]
            r  == AddAll(<<>>, <<>>, ts)
        IN  r.ok /\ Deref(r.heap, r.list) = ts

C19_Witness ==
    /\ call.op = "add_task"
    /\ call.exc = ""
    /\ Len(Tasks) = 2
    /\ Tasks[1].start < Tasks[2].start

InSeq(x, q) == \E i \in 1..Len(q) : q[i] = x

\* C20: in the command-line front end an error raised by add_task ends the
\* run with its message on stderr and a non-zero exit status; "Task added"
\* is printed only when add_task succeeded; and remove with a name prints
\* its confirmation and exits with 0, whether or not a task matched.
C20_CliSurfacesErrors ==
    cli.pc = "done"
        => /\ (cli.command = "add" /\ IsFailedAdd(call))
                => /\ cli.status # 0
                   /\ cli.err = call.msg
                   /\ cli.err \in {EndBeforeStartMsg, ConflictMsg}
                   /\ cli.out = <<>>
           /\ InSeq(TaskAdded, cli.out)
                => /\ cli.command = "add"
                   /\ call.op = "add_task"
                   /\ call.exc = ""
                   /\ Tasks = <<Task(call.name, call.start, call.end)>>
           /\ (cli.command = "remove" /\ cli.name # "")
                => /\ cli.out = <<TaskRemoved>>
                   /\ cli.status = 0
                   /\ call.op = "remove_task"

C20_Witness ==
    /\ cli.pc = "done"
    /\ cli.command = "add"
    /\ IsFailedAdd(call)
    /\ cli.status = 1

====
